---- MODULE Spec2Model ----
(***************************************************************************)
(* Model of handwritten.py: the Streamlit script that sends an uploaded    *)
(* image, or every page of an uploaded PDF, to the Gemini API and offers   *)
(* the combined text as a DOCX download.                                   *)
(*                                                                         *)
(* One script execution is modelled statement group by statement group.    *)
(* The collaborators (PIL / PyMuPDF rendering, the Gemini call) are the    *)
(* environment: each call either returns or raises, chosen                 *)
(* nondeterministically.  Strings are TLA+ strings, built with \o exactly  *)
(* as the f-strings and the join of the source build them.                 *)
(***************************************************************************)
EXTENDS Integers, Sequences, FiniteSets, TLC

(* ------------------------------ bounds --------------------------------- *)

\* Largest number of pages of an uploaded PDF that is explored.
MaxPages == 3

\* Texts the generation service may return (response.text).  "" is the
\* empty answer; the third one contains the blank line that is also the
\* section separator of the report.
Texts == {"", "T1", "T2\n\nS2"}

\* What model.generate_content / response.text can do (lines 47-51):
\*   raise      generate_content raises (network error, quota, ...)
\*   malformed  the response has no usable text part: response.text raises
\*   text       response.text returns the text
Responses ==
    {[kind |-> "raise", text |-> ""], [kind |-> "malformed", text |-> ""]}
        \cup {[kind |-> "text", text |-> t] : t \in Texts}

(* ------------------------------ values --------------------------------- *)

\* Python's None and a str value, as the values analysis_result can hold.
None == [isNone |-> TRUE, text |-> ""]

Str(t) == [isNone |-> FALSE, text |-> t]

\* Truth value of `if analysis_result:` (lines 109, 151): None and the
\* empty string are false, every other string is true.
Truthy_notNone(v) == ~v.isNone

Truthy(v) == ~v.isNone /\ v.text # ""

\* analyze_image (lines 31-51): the text on success; on any exception one
\* st.error and None.
analyze_image(resp) ==
    IF resp.kind = "text"
    THEN [value |-> Str(resp.text), errors |-> <<>>]
    ELSE [value |-> None,
          errors |-> <<"An error occurred while calling the Gemini API">>]

\* create_docx_bytes (lines 54-64): a document holding the content as one
\* paragraph.
create_docx_bytes(content) == [paragraphs |-> <<content>>]

\* f"## Results for Page {i + 1}\n\n{analysis_result}" (line 153)
SuccessSection(i, text) ==
    "## Results for Page " \o ToString(i + 1) \o "\n\n" \o text

\* f"## Results for Page {i + 1}\n\n[ANALYSIS FAILED]" (line 157)
FailedSection(i) ==
    "## Results for Page " \o ToString(i + 1) \o "\n\n" \o "[ANALYSIS FAILED]"

\* sep.join(list) of Python (line 161)
RECURSIVE Join_single(_, _)
Join_single(sep, list) ==
    IF list = <<>> THEN ""
    ELSE IF Len(list) = 1 THEN list[1]
    ELSE list[1] \o "\n" \o Join_single(sep, Tail(list))

RECURSIVE Join(_, _)
Join(sep, list) ==
    IF list = <<>> THEN ""
    ELSE IF Len(list) = 1 THEN list[1]
    ELSE list[1] \o sep \o Join(sep, Tail(list))

(* ------------------------------- state --------------------------------- *)

VARIABLES
    pc,               \* position of the script execution
    file_type,        \* uploaded_file.type, "none" while nothing is uploaded
    doc,              \* pages of the opened PDF, in document order
    i,                \* loop index of `for i, page in enumerate(doc)`
    image_bytes,      \* page whose PNG image_bytes holds (-1: none yet)
    analysis_result,  \* the variable analysis_result
    all_results,      \* the list all_results
    final_analysis,   \* the variable final_analysis
    errors,           \* st.error messages shown, in order
    downloads,        \* st.download_button widgets offered, in order
    outstanding,      \* collaborator calls begun and not yet returned
    render_calls,     \* history: page index of every page.get_pixmap call
    render_failed,    \* history: page indexes whose rendering raised
    analyze_calls,    \* history: image passed to every analyze_image call
    responses,        \* history: what the service did for every call
    export_calls      \* history: content of every create_docx_bytes call

vars == <<pc, file_type, doc, i, image_bytes, analysis_result, all_results,
          final_analysis, errors, downloads, outstanding, render_calls,
          render_failed, analyze_calls, responses, export_calls>>

\* The image of the single-image path, as a value of image_bytes.
UploadedImage == 0 - 2

Init ==
    /\ pc = "idle"
    /\ file_type = "none"
    /\ doc = <<>>
    /\ i = 0
    /\ image_bytes = 0 - 1
    /\ analysis_result = None
    /\ all_results = <<>>
    /\ final_analysis = ""
    /\ errors = <<>>
    /\ downloads = <<>>
    /\ outstanding = {}
    /\ render_calls = <<>>
    /\ render_failed = <<>>
    /\ analyze_calls = <<>>
    /\ responses = <<>>
    /\ export_calls = <<>>

(* ------------------------------ actions -------------------------------- *)

\* Lines 96-103: an image is uploaded, opened and re-encoded to bytes.
UploadImage(ft) ==
    /\ pc = "idle"
    /\ ft \in {"image/jpeg", "image/png"}
    /\ pc' = "image_ready"
    /\ file_type' = ft
    /\ image_bytes' = UploadedImage
    /\ UNCHANGED <<doc, i, analysis_result, all_results, final_analysis,
                   errors, downloads, outstanding, render_calls,
                   render_failed, analyze_calls, responses, export_calls>>

\* Lines 125-129: a PDF of n pages is uploaded and opened.  Page k of the
\* document (1-based position in the sequence) is the page of index k - 1.
UploadPdf(n) ==
    /\ pc = "idle"
    /\ n \in 0..MaxPages
    /\ pc' = "pdf_ready"
    /\ file_type' = "application/pdf"
    /\ doc' = [k \in 1..n |-> k - 1]
    /\ UNCHANGED <<i, image_bytes, analysis_result, all_results,
                   final_analysis, errors, downloads, outstanding,
                   render_calls, render_failed, analyze_calls, responses,
                   export_calls>>

\* Lines 97 and 127: Image.open / fitz.open raise on a file they cannot
\* read; nothing catches the exception and the script execution ends
\* before any button is drawn.
UploadRaises(ft) ==
    /\ pc = "idle"
    /\ ft \in {"image/jpeg", "image/png", "application/pdf"}
    /\ pc' = "load_failed"
    /\ file_type' = ft
    /\ UNCHANGED <<doc, i, image_bytes, analysis_result, all_results,
                   final_analysis, errors, downloads, outstanding,
                   render_calls, render_failed, analyze_calls, responses,
                   export_calls>>

\* Lines 105-107: "Analyze Document" is pressed; analyze_image is called
\* with the bytes of the uploaded image.
ClickAnalyzeImage ==
    /\ pc = "image_ready"
    /\ pc' = "image_analyzing"
    /\ analyze_calls' = Append(analyze_calls, image_bytes)
    /\ outstanding' = outstanding \cup {[op |-> "analyze", page |-> image_bytes]}
    /\ UNCHANGED <<file_type, doc, i, image_bytes, analysis_result,
                   all_results, final_analysis, errors, downloads,
                   render_calls, render_failed, responses, export_calls>>

\* Lines 107-122: the call returns; a true result is exported and offered
\* for download, anything else is reported with st.error.
ImageAnalysisReturns(resp) ==
    /\ pc = "image_analyzing"
    /\ resp \in Responses
    /\ LET r == analyze_image(resp) IN
        /\ analysis_result' = r.value
        /\ IF Truthy(r.value)
           THEN /\ export_calls' = Append(export_calls, r.value.text)
                /\ downloads' = Append(downloads,
                       [data |-> create_docx_bytes(r.value.text),
                        file_name |-> "analysis_result.docx"])
                /\ errors' = errors \o r.errors
           ELSE /\ errors' = errors \o r.errors \o
                       <<"Failed to get a response from the AI. Please try again.">>
                /\ UNCHANGED <<export_calls, downloads>>
    /\ responses' = Append(responses, resp)
    /\ outstanding' = outstanding \ {[op |-> "analyze", page |-> image_bytes]}
    /\ pc' = "done"
    /\ UNCHANGED <<file_type, doc, i, image_bytes, all_results,
                   final_analysis, render_calls, render_failed,
                   analyze_calls>>

\* Lines 131-134: "Analyze Full PDF" is pressed; all_results = [] and the
\* page loop is entered.
ClickAnalyzePdf ==
    /\ pc = "pdf_ready"
    /\ pc' = "loop"
    /\ all_results' = <<>>
    /\ i' = 0
    /\ UNCHANGED <<file_type, doc, image_bytes, analysis_result,
                   final_analysis, errors, downloads, outstanding,
                   render_calls, render_failed, analyze_calls, responses,
                   export_calls>>

\* Lines 134-138: the loop takes the next page and calls page.get_pixmap.
NextPage_async ==
    \/ /\ pc = "loop"
       /\ i < Len(doc)
       /\ pc' = "rendering"
       /\ render_calls' = Append(render_calls, doc[i + 1])
       /\ outstanding' = outstanding \cup {[op |-> "render", page |-> doc[i + 1]]}
       /\ UNCHANGED <<file_type, doc, i, image_bytes, analysis_result,
                      all_results, final_analysis, errors, downloads,
                      render_failed, analyze_calls, responses, export_calls>>
    \/ /\ pc = "analyzing"
       /\ i + 1 < Len(doc)
       /\ pc' = "rendering"
       /\ i' = i + 1
       /\ render_calls' = Append(render_calls, doc[i + 2])
       /\ outstanding' = outstanding \cup {[op |-> "render", page |-> doc[i + 2]]}
       /\ UNCHANGED <<file_type, doc, image_bytes, analysis_result,
                      all_results, final_analysis, errors, downloads,
                      render_failed, analyze_calls, responses, export_calls>>

NextPage ==
    /\ pc = "loop"
    /\ i < Len(doc)
    /\ pc' = "rendering"
    /\ render_calls' = Append(render_calls, doc[i + 1])
    /\ outstanding' = outstanding \cup {[op |-> "render", page |-> doc[i + 1]]}
    /\ UNCHANGED <<file_type, doc, i, image_bytes, analysis_result,
                   all_results, final_analysis, errors, downloads,
                   render_failed, analyze_calls, responses, export_calls>>

\* Lines 138-149: the page is rendered and saved as PNG into image_bytes,
\* and analyze_image is called with it.
RenderReturns ==
    /\ pc = "rendering"
    /\ pc' = "analyzing"
    /\ image_bytes' = doc[i + 1]
    /\ analyze_calls' = Append(analyze_calls, image_bytes')
    /\ outstanding' = (outstanding \ {[op |-> "render", page |-> doc[i + 1]]})
                          \cup {[op |-> "analyze", page |-> doc[i + 1]]}
    /\ UNCHANGED <<file_type, doc, i, analysis_result, all_results,
                   final_analysis, errors, downloads, render_calls,
                   render_failed, responses, export_calls>>

\* Lines 138-146: get_pixmap, Image.frombytes or image.save raises.  The
\* loop body has no try block: the exception leaves the loop and ends the
\* script execution; lines 149-170 are not reached.
RenderRaises ==
    /\ pc = "rendering"
    /\ pc' = "aborted"
    /\ render_failed' = Append(render_failed, doc[i + 1])
    /\ outstanding' = outstanding \ {[op |-> "render", page |-> doc[i + 1]]}
    /\ UNCHANGED <<file_type, doc, i, image_bytes, analysis_result,
                   all_results, final_analysis, errors, downloads,
                   render_calls, analyze_calls, responses, export_calls>>

\* Lines 151-157: the section appended to all_results for page index idx.
RecordOutcome_skipFailed(results, idx, value) ==
    IF Truthy(value)
    THEN Append(results, SuccessSection(idx, value.text))
    ELSE results

RecordOutcome_reset(results, idx, value) ==
    IF Truthy(value)
    THEN Append(results, SuccessSection(idx, value.text))
    ELSE <<FailedSection(idx)>>

RecordOutcome(results, idx, value) ==
    IF Truthy(value)
    THEN Append(results, SuccessSection(idx, value.text))
    ELSE Append(results, FailedSection(idx))

\* Lines 149-157: analyze_image returns for the current page; its section
\* is appended and the loop goes on to the next index.
AnalysisReturns(resp) ==
    /\ pc = "analyzing"
    /\ resp \in Responses
    /\ LET r == analyze_image(resp) IN
        /\ analysis_result' = r.value
        /\ errors' = IF Truthy(r.value)
                     THEN errors \o r.errors
                     ELSE errors \o r.errors \o
                          <<"Failed to get a response for Page "
                                \o ToString(i + 1) \o ".">>
        /\ all_results' = RecordOutcome(all_results, i, r.value)
    /\ responses' = Append(responses, resp)
    /\ outstanding' = outstanding \ {[op |-> "analyze", page |-> doc[i + 1]]}
    /\ i' = i + 1
    /\ pc' = "loop"
    /\ UNCHANGED <<file_type, doc, image_bytes, final_analysis, downloads,
                   render_calls, render_failed, analyze_calls, export_calls>>

\* Lines 159-170: the loop is exhausted; a non-empty all_results is joined,
\* exported and offered for download.
AfterLoop_always ==
    /\ pc = "loop"
    /\ i >= Len(doc)
    /\ final_analysis' = Join("\n\n", all_results)
    /\ export_calls' = Append(export_calls, final_analysis')
    /\ downloads' = Append(downloads,
           [data |-> create_docx_bytes(final_analysis'),
            file_name |-> "full_pdf_analysis.docx"])
    /\ pc' = "done"
    /\ UNCHANGED <<file_type, doc, i, image_bytes, analysis_result,
                   all_results, errors, outstanding, render_calls,
                   render_failed, analyze_calls, responses>>

AfterLoop ==
    /\ pc = "loop"
    /\ i >= Len(doc)
    /\ IF all_results # <<>>
       THEN /\ final_analysis' = Join("\n\n", all_results)
            /\ export_calls' = Append(export_calls, final_analysis')
            /\ downloads' = Append(downloads,
                   [data |-> create_docx_bytes(final_analysis'),
                    file_name |-> "full_pdf_analysis.docx"])
       ELSE UNCHANGED <<final_analysis, export_calls, downloads>>
    /\ pc' = "done"
    /\ UNCHANGED <<file_type, doc, i, image_bytes, analysis_result,
                   all_results, errors, outstanding, render_calls,
                   render_failed, analyze_calls, responses>>

\* Any later interaction re-executes the script from the top.
Rerun ==
    /\ pc \in {"done", "aborted", "load_failed"}
    /\ pc' = "idle"
    /\ file_type' = "none"
    /\ doc' = <<>>
    /\ i' = 0
    /\ image_bytes' = 0 - 1
    /\ analysis_result' = None
    /\ all_results' = <<>>
    /\ final_analysis' = ""
    /\ errors' = <<>>
    /\ downloads' = <<>>
    /\ outstanding' = {}
    /\ render_calls' = <<>>
    /\ render_failed' = <<>>
    /\ analyze_calls' = <<>>
    /\ responses' = <<>>
    /\ export_calls' = <<>>

Next ==
    \/ \E ft \in {"image/jpeg", "image/png"} : UploadImage(ft)
    \/ \E n \in 0..MaxPages : UploadPdf(n)
    \/ \E ft \in {"image/jpeg", "image/png", "application/pdf"} : UploadRaises(ft)
    \/ ClickAnalyzeImage
    \/ \E resp \in Responses : ImageAnalysisReturns(resp)
    \/ ClickAnalyzePdf
    \/ NextPage
    \/ RenderReturns
    \/ RenderRaises
    \/ \E resp \in Responses : AnalysisReturns(resp)
    \/ AfterLoop
    \/ Rerun

Spec == Init /\ [][Next]_vars

(* ----------------------------- properties ------------------------------ *)

\* A script execution on the PDF path in which the button was pressed.
PdfRun ==
    /\ file_type = "application/pdf"
    /\ pc \in {"loop", "rendering", "analyzing", "done", "aborted"}

\* The PDF run has ended, normally or by an uncaught exception.
PdfRunEnded == PdfRun /\ pc \in {"done", "aborted"}

\* A script execution on the single-image path.
ImageRun == file_type \in {"image/jpeg", "image/png"}

\* The three ways an analysis call fails: the call raises, the response is
\* malformed, the returned text is empty.
AnalysisFailed(resp) ==
    \/ resp.kind = "raise"
    \/ resp.kind = "malformed"
    \/ resp.kind = "text" /\ resp.text = ""

\* The header of the section of page number n (1-based).
Header(n) == "## Results for Page " \o ToString(n) \o "\n\n"

StartsWith(s, prefix) ==
    /\ Len(s) >= Len(prefix)
    /\ SubSeq(s, 1, Len(prefix)) = prefix

IsPrefix(s, t) ==
    /\ Len(s) <= Len(t)
    /\ \A k \in 1..Len(s) : s[k] = t[k]

\* The reference report: a fold over the first n outcomes, section by
\* section, from the last one back.
RefSection(n, resp) ==
    Header(n) \o (IF AnalysisFailed(resp) THEN "[ANALYSIS FAILED]" ELSE resp.text)

RECURSIVE RefReport(_, _)
RefReport(outs, n) ==
    IF n = 0 THEN ""
    ELSE IF n = 1 THEN RefSection(1, outs[1])
    ELSE RefReport(outs, n - 1) \o "\n\n" \o RefSection(n, outs[n])

\* C1: whenever the PDF pipeline has reached the export step, the report
\* has exactly one section per page of the document, and section k carries
\* the header of page k: the sections are in ascending page order, whatever
\* pages succeeded or failed.
C1_OneSectionPerPageInOrder ==
    (PdfRun /\ export_calls # <<>>) =>
        /\ Len(all_results) = Len(doc)
        /\ \A k \in 1..Len(all_results) : StartsWith(all_results[k], Header(k))
        /\ export_calls = <<Join("\n\n", all_results)>>

C1_Witness ==
    /\ PdfRun /\ export_calls # <<>>
    /\ Len(doc) = 3
    /\ AnalysisFailed(responses[1])
    /\ ~AnalysisFailed(responses[2])
    /\ AnalysisFailed(responses[3])

\* C2 (as claimed): a page whose rendering raised has the failure marker as
\* its section and the run is not aborted by it.
C2_RenderFailureRecorded ==
    \A k \in 1..Len(render_failed) :
        /\ pc # "aborted"
        /\ Len(all_results) > render_failed[k]
        /\ all_results[render_failed[k] + 1] = FailedSection(render_failed[k])

\* C3: every analysis call of the PDF run that failed in one of the three
\* ways has the failure marker as its page's section, every other page has
\* its returned text, the loop goes on to the next index after either, and
\* the run is never aborted by an analysis failure.
C3_AnalysisFailureIsolated ==
    PdfRun =>
        /\ Len(all_results) = Len(responses)
        /\ \A k \in 1..Len(responses) :
              all_results[k] =
                  IF AnalysisFailed(responses[k])
                  THEN Header(k) \o "[ANALYSIS FAILED]"
                  ELSE Header(k) \o responses[k].text
        /\ pc = "loop" => i = Len(responses)
        /\ pc = "aborted" => Len(render_failed) = 1

C3_Witness ==
    /\ PdfRun
    /\ Len(responses) = 3
    /\ responses[1].kind = "malformed"
    /\ responses[2] = [kind |-> "text", text |-> ""]
    /\ responses[3] = [kind |-> "text", text |-> "T1"]
    /\ pc = "loop"

C5_ReportIsReferenceFold ==
    (PdfRun /\ export_calls # <<>>) =>
        /\ final_analysis = RefReport(responses, Len(responses))
        /\ export_calls = <<final_analysis>>
        /\ downloads = <<[data |-> [paragraphs |-> <<final_analysis>>],
                          file_name |-> "full_pdf_analysis.docx"]>>

C5_Witness ==
    /\ PdfRun /\ export_calls # <<>>
    /\ Len(responses) = 3
    /\ responses[1] = [kind |-> "text", text |-> "T2\n\nS2"]
    /\ responses[2].kind = "raise"
    /\ responses[3] = [kind |-> "text", text |-> "T1"]

\* C6 (as claimed): when the PDF run has ended, every page of the document
\* has been rendered exactly once and analysed exactly once, in order.
C6_AllPagesProcessedOnce ==
    PdfRunEnded =>
        /\ render_calls = doc
        /\ analyze_calls = doc
        /\ Len(responses) = Len(doc)

\* C7: at most one render or analysis call is outstanding, and a render of
\* the page of index k is outstanding only when the outcomes of the pages
\* 0..k-1 have all been recorded.
C7_StrictlySequential ==
    /\ Cardinality(outstanding) <= 1
    /\ \A o \in outstanding :
          o.op = "render" =>
              /\ Len(all_results) = o.page
              /\ Len(responses) = o.page
              /\ Len(analyze_calls) = o.page

C7_Witness ==
    /\ outstanding = {[op |-> "render", page |-> 2]}
    /\ Len(all_results) = 2

\* C8 (as claimed): a run on a document of at least one page that has ended
\* has called the exporter exactly once, after the last page's outcome was
\* recorded, on the full report, and offers one download.
C8_ExportedExactlyOnce ==
    (PdfRunEnded /\ Len(doc) >= 1) =>
        /\ Len(export_calls) = 1
        /\ Len(all_results) = Len(doc)
        /\ export_calls[1] = Join("\n\n", all_results)
        /\ Len(downloads) = 1

\* A step taken inside the page loop only ever appends to all_results, and
\* appends exactly one entry when it finishes a page iteration.
AppendOnlyStep ==
    pc \in {"loop", "rendering", "analyzing"} =>
        /\ IsPrefix(all_results, all_results')
        /\ Len(all_results') =
               IF i' = i + 1 THEN Len(all_results) + 1 ELSE Len(all_results)

C10_ImageDownloadIffText ==
    ImageRun =>
        /\ Len(analyze_calls) <= 1
        /\ Len(responses) <= 1
        /\ Len(export_calls) = Len(downloads)
        /\ Len(downloads) <= 1
        /\ downloads # <<>> <=>
              (pc = "done" /\ responses # <<>> /\ ~AnalysisFailed(responses[1]))
        /\ downloads # <<>> =>
              downloads[1].data = [paragraphs |-> <<responses[1].text>>]
        /\ (pc = "done" /\ AnalysisFailed(responses[1])) =>
              /\ errors # <<>>
              /\ export_calls = <<>>

C10_Witness ==
    /\ ImageRun
    /\ pc = "done"
    /\ responses = <<[kind |-> "text", text |-> ""]>>
    /\ downloads = <<>>
====
